---- MODULE Spec2Model ----
(***************************************************************************)
(* Model of python_infite.py: the similarity graph over the beats of a     *)
(* song (get_seg_distances, generate_graph) and the walk that concatenates *)
(* beat segments up to a target length (generate_infinite_track), driven   *)
(* by main.                                                                *)
(*                                                                         *)
(* Real numbers are fixed-point integers.  Times (a beat's start and       *)
(* duration, the target length in seconds) and distances are counted in    *)
(* ticks of 1/TicksPerSecond; feature components, loudness, confidence and *)
(* the threshold are integers; random.random() and the branch probability  *)
(* are counted in steps of 1/RandomResolution.  Indices are 0-based as in  *)
(* the program; TLA+ sequences are 1-based, so beats[i] of the program is  *)
(* beats[i + 1] here.                                                      *)
(***************************************************************************)
EXTENDS Integers, Sequences, FiniteSets, TLC

\* ------------------------------------------------------------------ bounds
MaxBeats == 5
TicksPerSecond == 2
RandomResolution == 2
MaxIterations == 4

\* ------------------------------------------------------- numeric helpers
Abs(x) == IF x < 0 THEN -x ELSE x

Min(a, b) == IF a < b THEN a ELSE b

\* A program integer n as a fixed-point number.
Fix(n) == n * TicksPerSecond

\* Python's int() of the real num/den (den > 0): truncation toward zero.
int(num, den) == IF num >= 0 THEN num \div den ELSE -((-num) \div den)

\* Python's round() of the real num/den (den > 0): nearest, ties to even.
round(num, den) ==
    LET a == Abs(num)
        q == a \div den
        r == a % den
        m == IF 2 * r < den THEN q
             ELSE IF 2 * r > den THEN q + 1
             ELSE IF q % 2 = 0 THEN q ELSE q + 1
    IN  IF num >= 0 THEN m ELSE -m

RECURSIVE SumSq(_)
SumSq(v) == IF v = <<>> THEN 0 ELSE Head(v) * Head(v) + SumSq(Tail(v))

\* Square root of a perfect square.  The root of any other number is not an
\* integer and has no value here: the feature sets below give perfect
\* squares only.
Sqrt(n) == CHOOSE r \in 0..n : r * r = n

RECURSIVE Concatenate(_)
Concatenate(segs) ==
    IF segs = <<>> THEN <<>> ELSE Head(segs) \o Concatenate(Tail(segs))

\* --------------------------------------------------------------- weights
WEIGHTS ==
    [timbre |-> 1, pitch |-> 10, loudness_start |-> 1, loudness_max |-> 1,
     duration |-> 100, confidence |-> 1]

PHASE_PENALTY == 100

BAR == 4

\* ------------------------------------------------------------ the inputs
\* Command lines: duration is --duration times 60 in ticks (seconds),
\* threshold is --threshold, prob is --prob in steps of 1/RandomResolution.
ValidArgs ==
    [duration : {3, 4}, threshold : {0, 60, 100, 150}, prob : 0..RandomResolution]

InvalidArgs ==
    { [duration |-> 3, threshold |-> -1, prob |-> 1],
      [duration |-> 3, threshold |-> 60, prob |-> -1],
      [duration |-> 3, threshold |-> 60, prob |-> RandomResolution + 1],
      [duration |-> 0, threshold |-> 60, prob |-> 1],
      [duration |-> -1, threshold |-> 60, prob |-> 1] }

ArgSpace == ValidArgs \cup InvalidArgs

\* What the feature extraction can report for one beat: the aggregated
\* features and a duration in ticks.
Quiet == [timbre |-> <<0, 0>>, pitch |-> <<0, 0>>, loudness |-> 0]

Loud == [timbre |-> <<3, 4>>, pitch |-> <<0, 1>>, loudness |-> 2]

BeatKinds ==
    { [duration |-> 1, features |-> Quiet], [duration |-> 2, features |-> Loud] }

SampleRates == {1, 2}

\* The time of the first beat marker, in ticks.
FirstMarkers == {0, 1}

\* How many samples the buffer holds past the last beat marker.
TailSamples == {1, 11}

\* How many columns the synchronised features can have for a number of
\* intervals: one less, as many, or one more.
ColumnCounts(intervals) == {n \in {intervals - 1, intervals, intervals + 1} : n >= 0}

VARIABLES
    pc,                 \* where main is
    args,               \* the parsed command line
    y,                  \* the sample buffer
    sr,                 \* its sample rate
    beats,              \* the beat list (with neighbors once the graph is built)
    target_samples,
    generated_samples,
    output_segments,
    current_index,
    full_audio,         \* what is handed to sf.write
    raised,             \* the exception that ended the run, "" if none
    iterations,         \* history: loop iterations begun
    emitted,            \* history: index of the beat emitted last, -1 if none
    branch_draws,       \* history: calls of random.random()
    choice_draws        \* history: calls of random.choice()

vars ==
    <<pc, args, y, sr, beats, target_samples, generated_samples,
      output_segments, current_index, full_audio, raised, iterations,
      emitted, branch_draws, choice_draws>>

history == <<iterations, emitted, branch_draws, choice_draws>>


\* ------------------------------------------------------------------ Init
\* The state when main has parsed the command line.
Init ==
    /\ pc = "main"
    /\ args \in ArgSpace
    /\ y = <<>>
    /\ sr = 0
    /\ beats = <<>>
    /\ target_samples = 0
    /\ generated_samples = 0
    /\ output_segments = <<>>
    /\ current_index = 0
    /\ full_audio = <<>>
    /\ raised = ""
    /\ iterations = 0
    /\ emitted = -1
    /\ branch_draws = 0
    /\ choice_draws = 0

\* -------------------------------------------------------- analyze_audio
\* beat_times[i] in ticks: the first marker is at first, and marker i is the
\* end of the i-th interval after it.
RECURSIVE beat_times(_, _, _)
beat_times(first, kinds, i) ==
    IF i = 0 THEN first ELSE beat_times(first, kinds, i - 1) + kinds[i].duration

\* The dictionary analyze_audio appends for the i-th interval (0-based i),
\* with the features of the i-th column of the synchronised matrices.
NewBeat(first, kinds, i) ==
    LET f == kinds[i + 1].features
    IN  [index |-> i,
         start |-> beat_times(first, kinds, i),
         duration |-> beat_times(first, kinds, i + 1)
                      - beat_times(first, kinds, i),
         timbre |-> f.timbre,
         pitch |-> f.pitch,
         loudness_max |-> f.loudness,
         loudness_start |-> f.loudness,
         confidence |-> 1,
         neighbors |-> <<>>]

\* The loaded buffer: sample k of the file is written k, so that a sample of
\* the output names the place of the input it was copied from.  The file
\* runs tail samples past the last beat marker.
LoadedSamples(first, kinds, rate, tail) ==
    [k \in 1..(int(beat_times(first, kinds, Len(kinds)) * rate, TicksPerSecond)
               + tail)
        |-> k - 1]

\* for i in range(num_beats): if i >= len(beat_times) - 1: continue.  A beat
\* is appended for the columns that have an interval, none for the others;
\* intervals is len(beat_times) - 1.
AppendedBeats(first, kinds, num_beats, intervals) ==
    [i \in 1..Min(num_beats, intervals) |-> NewBeat(first, kinds, i - 1)]

\* main when the input file does not exist: sys.exit(1).
FileNotFound ==
    /\ pc = "main"
    /\ pc' = "exit"
    /\ UNCHANGED <<args, y, sr, beats, target_samples, generated_samples,
                   output_segments, current_index, full_audio, raised, history>>

\* y, sr, beats = analyze_audio(args.input_file): librosa reports a buffer,
\* its rate, the markers of intervals intervals and num_beats columns of
\* synchronised features (of a column without an interval only the number
\* matters, so kinds lists the intervals).
analyze_audio ==
    /\ pc = "main"
    /\ \E intervals \in 0..MaxBeats, rate \in SampleRates,
          first \in FirstMarkers, tail \in TailSamples :
         \E kinds \in [1..intervals -> BeatKinds],
            num_beats \in ColumnCounts(intervals) :
            /\ y' = LoadedSamples(first, kinds, rate, tail)
            /\ sr' = rate
            /\ beats' = AppendedBeats(first, kinds, num_beats, intervals)
    /\ pc' = "generate_graph"
    /\ UNCHANGED <<args, target_samples, generated_samples, output_segments,
                   current_index, full_audio, raised, history>>

\* ---------------------------------------------------- get_seg_distances
euclidean_distance(v1, v2) ==
    Sqrt(SumSq([k \in 1..Len(v1) |-> v1[k] - v2[k]]))

\* get_seg_distances with the duration difference left signed.
get_seg_distances_signed(seg1, seg2) ==
    LET timbre == euclidean_distance(seg1.timbre, seg2.timbre)
        pitch == euclidean_distance(seg1.pitch, seg2.pitch)
        sloudStart == Abs(seg1.loudness_start - seg2.loudness_start)
        sloudMax == Abs(seg1.loudness_max - seg2.loudness_max)
        duration == seg1.duration - seg2.duration
        confidence == Abs(seg1.confidence - seg2.confidence)
    IN  Fix(timbre * WEIGHTS.timbre) + Fix(pitch * WEIGHTS.pitch)
        + Fix(sloudStart * WEIGHTS.loudness_start)
        + Fix(sloudMax * WEIGHTS.loudness_max)
        + duration * WEIGHTS.duration
        + Fix(confidence * WEIGHTS.confidence)

get_seg_distances(seg1, seg2) ==
    LET timbre == euclidean_distance(seg1.timbre, seg2.timbre)
        pitch == euclidean_distance(seg1.pitch, seg2.pitch)
        sloudStart == Abs(seg1.loudness_start - seg2.loudness_start)
        sloudMax == Abs(seg1.loudness_max - seg2.loudness_max)
        duration == Abs(seg1.duration - seg2.duration)
        confidence == Abs(seg1.confidence - seg2.confidence)
    IN  Fix(timbre * WEIGHTS.timbre) + Fix(pitch * WEIGHTS.pitch)
        + Fix(sloudStart * WEIGHTS.loudness_start)
        + Fix(sloudMax * WEIGHTS.loudness_max)
        + duration * WEIGHTS.duration
        + Fix(confidence * WEIGHTS.confidence)

\* ------------------------------------------------------- generate_graph
\* The scan without its i == j test.
SkipsPair_never(i, j) == FALSE

\* if i == j: continue
SkipsPair(i, j) == i = j

\* The penalty put on the pairs of the same phase instead.
PhasePenalty_inverted(b1, b2) ==
    IF (b1.index % BAR) = (b2.index % BAR) THEN Fix(PHASE_PENALTY) ELSE 0

\* if (b1['index'] % 4) != (b2['index'] % 4): dist += 100
PhasePenalty(b1, b2) ==
    IF (b1.index % BAR) # (b2.index % BAR) THEN Fix(PHASE_PENALTY) ELSE 0

\* dist as it stands when it is compared with the threshold.
PairDistance(b1, b2) == get_seg_distances(b1, b2) + PhasePenalty(b1, b2)

\* The test with > for <.
BelowThreshold_flipped(dist, threshold) == dist > Fix(threshold)

\* The test with <= for <.
BelowThreshold_inclusive(dist, threshold) == dist <= Fix(threshold)

\* if dist < threshold
BelowThreshold(dist, threshold) == dist < Fix(threshold)

\* The inner loop inserting each new entry at the front of the list.
RECURSIVE Appended_prepending(_, _, _, _)
Appended_prepending(bs, i, j, threshold) ==
    IF j >= Len(bs) THEN <<>>
    ELSE LET dist == PairDistance(bs[i + 1], bs[j + 1])
             here == IF ~SkipsPair(i, j) /\ BelowThreshold(dist, threshold)
                     THEN <<[dest |-> j, distance |-> dist]>>
                     ELSE <<>>
         IN  Appended_prepending(bs, i, j + 1, threshold) \o here

\* The inner loop for one b1: what is appended to b1['neighbors'], in the
\* order of j.
RECURSIVE Appended(_, _, _, _)
Appended(bs, i, j, threshold) ==
    IF j >= Len(bs) THEN <<>>
    ELSE LET dist == PairDistance(bs[i + 1], bs[j + 1])
             here == IF ~SkipsPair(i, j) /\ BelowThreshold(dist, threshold)
                     THEN <<[dest |-> j, distance |-> dist]>>
                     ELSE <<>>
         IN  here \o Appended(bs, i, j + 1, threshold)

Graph(bs, threshold) ==
    [k \in 1..Len(bs) |->
        [bs[k] EXCEPT !.neighbors = @ \o Appended(bs, k - 1, 0, threshold)]]

\* beats = generate_graph(beats, args.threshold)
generate_graph ==
    /\ pc = "generate_graph"
    /\ beats' = Graph(beats, args.threshold)
    /\ pc' = "generate_infinite_track"
    /\ UNCHANGED <<args, y, sr, target_samples, generated_samples,
                   output_segments, current_index, full_audio, raised, history>>

\* ---------------------------------------------- generate_infinite_track
\* target_samples = int(duration_minutes * 60 * sr); args.duration counts
\* duration_minutes in ticks of 1/(60 * TicksPerSecond) minute.
TargetSamples(duration, rate) ==
    int(duration * 60 * rate, 60 * TicksPerSecond)

\* The call cutting the buffer down to the target length before the loop.
generate_infinite_track_cropping ==
    /\ pc = "generate_infinite_track"
    /\ target_samples' = TargetSamples(args.duration, sr)
    /\ y' = SubSeq(y, 1, Min(Len(y), TargetSamples(args.duration, sr)))
    /\ generated_samples' = 0
    /\ output_segments' = <<>>
    /\ current_index' = 0
    /\ pc' = "while"
    /\ UNCHANGED <<args, sr, beats, full_audio, raised, history>>

\* The call, up to the loop head.
generate_infinite_track ==
    /\ pc = "generate_infinite_track"
    /\ target_samples' = TargetSamples(args.duration, sr)
    /\ generated_samples' = 0
    /\ output_segments' = <<>>
    /\ current_index' = 0
    /\ pc' = "while"
    /\ UNCHANGED <<args, y, sr, beats, full_audio, raised, history>>

\* The loop condition with <= for <.
Continues_inclusive(generated, target) == generated <= target

\* while generated_samples < target_samples
Continues(generated, target) == generated < target

\* The wraparound test with > for >=.
Wrapped_late(index, n) == IF index > n THEN 0 ELSE index

\* if current_index >= len(beats): current_index = 0
Wrapped(index, n) == IF index >= n THEN 0 ELSE index

\* y[start_sample:end_sample] for bounds >= 0: a slice is cut at len(y).
Slice(buffer, start_sample, end_sample) ==
    SubSeq(buffer, Min(start_sample, Len(buffer)) + 1,
           Min(end_sample, Len(buffer)))

\* segment = y[int(start * sr):int((start + duration) * sr)]
Segment(buffer, rate, beat) ==
    Slice(buffer, int(beat.start * rate, TicksPerSecond),
          int((beat.start + beat.duration) * rate, TicksPerSecond))

\* The test with <= for <.
RandomBelow_inclusive(r, prob) == r <= prob

\* random.random() < branch_probability, for the draw r / RandomResolution
RandomBelow(r, prob) == r < prob

\* random.random() called whatever the list holds.
CallsRandom_always(neighbors) == TRUE

\* neighbors and random.random() < ...: 'and' evaluates its right side, the
\* call of random.random(), only when the list is not empty.
CallsRandom(neighbors) == neighbors # <<>>

\* if neighbors and random.random() < branch_probability
Jumps(neighbors, r, prob) == neighbors # <<>> /\ RandomBelow(r, prob)

\* A jump that always takes the first neighbor of the list.
NextIndex_first(index, neighbors, jumped, c) ==
    IF jumped THEN neighbors[1].dest ELSE index + 1

\* The index after the beat at index was emitted: next_beat['dest'] for the
\* neighbor random.choice picked (the c-th), or index + 1.
NextIndex(index, neighbors, jumped, c) ==
    IF jumped THEN neighbors[c].dest ELSE index + 1

\* One iteration of the loop, where random.random() would return
\* r / RandomResolution and random.choice the c-th element.  A run is
\* followed for MaxIterations iterations.
while_body(r, c) ==
    /\ pc = "while"
    /\ Continues(generated_samples, target_samples)
    /\ iterations < MaxIterations
    /\ LET index == Wrapped(current_index, Len(beats))
       IN  /\ iterations' = iterations + 1
           /\ IF index >= Len(beats)
              THEN \* beats[0] of an empty list
                   /\ r = 0 /\ c = 1
                   /\ current_index' = index
                   /\ raised' = "IndexError"
                   /\ pc' = "raised"
                   /\ UNCHANGED <<generated_samples, output_segments, emitted,
                                  branch_draws, choice_draws>>
              ELSE LET beat == beats[index + 1]
                       segment == Segment(y, sr, beat)
                       neighbors == beat.neighbors
                       jumped == Jumps(neighbors, r, args.prob)
                   IN  /\ IF ~CallsRandom(neighbors) THEN r = 0 ELSE TRUE
                       /\ IF jumped THEN c \in 1..Len(neighbors) ELSE c = 1
                       /\ output_segments' = Append(output_segments, segment)
                       /\ generated_samples' =
                              generated_samples + Len(segment)
                       /\ current_index' =
                              NextIndex(index, neighbors, jumped, c)
                       /\ emitted' = index
                       /\ branch_draws' =
                              IF CallsRandom(neighbors)
                              THEN branch_draws + 1 ELSE branch_draws
                       /\ choice_draws' =
                              IF jumped
                              THEN choice_draws + 1 ELSE choice_draws
                       /\ UNCHANGED <<raised, pc>>
    /\ UNCHANGED <<args, y, sr, beats, target_samples, full_audio>>

\* The output left untrimmed.
Trimmed_never(audio, target) == audio

\* if len(full_audio) > target_samples: full_audio = full_audio[:target_samples]
Trimmed(audio, target) ==
    IF Len(audio) > target THEN SubSeq(audio, 1, target) ELSE audio

\* The loop exit: np.concatenate (which raises ValueError on an empty list),
\* the trim and sf.write.
concatenate_and_save ==
    /\ pc = "while"
    /\ ~Continues(generated_samples, target_samples)
    /\ IF output_segments = <<>>
       THEN /\ raised' = "ValueError"
            /\ pc' = "raised"
            /\ UNCHANGED full_audio
       ELSE /\ full_audio' = Trimmed(Concatenate(output_segments), target_samples)
            /\ pc' = "done"
            /\ UNCHANGED raised
    /\ UNCHANGED <<args, y, sr, beats, target_samples, generated_samples,
                   output_segments, current_index, history>>

\* ---------------------------------------------------- the specifications
Draws == 0..(RandomResolution - 1)

Choices == 1..MaxBeats

Next ==
    \/ FileNotFound
    \/ analyze_audio
    \/ generate_graph
    \/ generate_infinite_track
    \/ \E r \in Draws, c \in Choices : while_body(r, c)
    \/ concatenate_and_save

Spec == Init /\ [][Next]_vars

\* ============================================================ the claims
BeatCount == Len(beats)

\* The real number duration_minutes * 60 * sr is
\* args.duration * 60 * sr / (60 * TicksPerSecond).
ProductNum == args.duration * 60 * sr

ProductDen == 60 * TicksPerSecond

\* A negative threshold, a probability outside [0, 1] or a target duration
\* that is not positive.
InvalidConfiguration(a) ==
    \/ a.threshold < 0
    \/ a.prob < 0
    \/ a.prob > RandomResolution
    \/ a.duration <= 0

\* C1 as stated: whenever generate_infinite_track completes (here: of a
\* valid configuration), the output holds exactly round(T * 60 * R) samples.
C1_LengthIsRounded ==
    (pc = "done" /\ ~InvalidConfiguration(args)) =>
        Len(full_audio) = round(ProductNum, ProductDen)

\* C1 amended: whenever generate_infinite_track completes, the output holds
\* exactly int(T * 60 * R) samples, the product cut toward zero, never more
\* and never less.
C1_LengthIsTruncated ==
    pc = "done" =>
        /\ Len(full_audio) = int(ProductNum, ProductDen)
        /\ Len(full_audio) = target_samples

\* A completed run whose last segment was cut by the trim.
C1_Witness ==
    /\ pc = "done"
    /\ ~InvalidConfiguration(args)
    /\ Len(output_segments) >= 2
    /\ Len(Concatenate(output_segments)) > Len(full_audio)

\* C2: with at least one beat (each of positive duration here) and a valid
\* configuration, the loop of generate_infinite_track is left after finitely
\* many iterations on every run.  A loop that always ends never takes an
\* iteration that draws nothing from the random source and leaves
\* generated_samples and the beat to emit next as it found them: the next
\* iteration would be that same iteration, and so without end.
C2_LoopTerminates ==
    [][(/\ pc = "while" /\ pc' = "while"
        /\ ~InvalidConfiguration(args)
        /\ BeatCount >= 1
        /\ \A i \in 1..BeatCount : beats[i].duration > 0)
       => ~(/\ generated_samples' = generated_samples
            /\ Wrapped(current_index', BeatCount)
                   = Wrapped(current_index, BeatCount)
            /\ branch_draws' = branch_draws
            /\ choice_draws' = choice_draws)]_vars

\* C3: every iteration of the loop over beats of positive duration (of a
\* valid configuration) leaves generated_samples strictly greater than it
\* found it.
C3_EveryIterationEmits ==
    [][(/\ pc = "while" /\ pc' = "while"
        /\ ~InvalidConfiguration(args)
        /\ \A i \in 1..BeatCount : beats[i].duration > 0)
       => generated_samples' > generated_samples]_vars

\* C4: with no beats (and a valid configuration), no loop iteration is
\* entered and the run does not end in the IndexError of
\* beats[current_index].
C4_EmptyRejectedBeforeLoop ==
    (pc # "main" /\ BeatCount = 0 /\ ~InvalidConfiguration(args)) =>
        (iterations = 0 /\ raised # "IndexError")

\* C5: a run with an invalid configuration never gets past the call of
\* generate_graph: it builds no graph and enters no loop.
C5_InvalidConfigurationRejected ==
    InvalidConfiguration(args) => pc \in {"main", "exit", "generate_graph"}

\* The history is exact: iteration number iterations emitted beat emitted.
Counted == iterations \in 1..MaxIterations

\* Every beat's neighbor list is empty.
NoNeighbors == \A i \in 1..BeatCount : beats[i].neighbors = <<>>

\* C7: with branch probability 0 the k-th emitted beat (k = 0, 1, ...) is
\* the beat at index k mod N, whatever the neighbor lists hold.
C7_ProbabilityZeroReplaysInOrder ==
    (args.prob = 0 /\ Counted /\ BeatCount >= 1) =>
        emitted = (iterations - 1) % BeatCount

\* Probability 0, beats with neighbors, and the walk has wrapped around to
\* index 0.
C7_Witness ==
    /\ args.prob = 0
    /\ Counted
    /\ BeatCount >= 2
    /\ iterations = BeatCount + 1
    /\ emitted = 0
    /\ \A i \in 1..BeatCount : beats[i].neighbors # <<>>

\* C8: with threshold 0 generate_graph leaves every neighbor list empty,
\* and the walk, whatever the branch probability, emits index k mod N as its
\* k-th beat.
C8_ThresholdZeroIsSequential ==
    args.threshold = 0 =>
        /\ NoNeighbors
        /\ (Counted /\ BeatCount >= 1) =>
               emitted = (iterations - 1) % BeatCount

\* Threshold 0 and branch probability 1.0 over two beats, the walk having
\* wrapped around from the second beat to the first.
C8_Witness ==
    /\ args.threshold = 0
    /\ args.prob = RandomResolution
    /\ BeatCount = 2
    /\ iterations = 3
    /\ emitted = 0

\* No entry of beats[i].neighbors has dest == i.
GraphHasNoSelfLoop ==
    \A i \in 1..BeatCount :
        \A k \in 1..Len(beats[i].neighbors) :
            beats[i].neighbors[k].dest # i - 1

\* An iteration that called random.choice leaves current_index at another
\* beat than the one it emitted.
JumpLeavesBeat ==
    choice_draws' = choice_draws + 1 => current_index' # emitted'

\* C9: no neighbor list ever holds its own beat's index, and a branch step
\* never goes back to the beat it just emitted.
C9_NoSelfLoops == []GraphHasNoSelfLoop /\ [][JumpLeavesBeat]_vars

\* A walk that has branched.
C9_Witness ==
    /\ pc = "while"
    /\ choice_draws >= 1
    /\ current_index < emitted

\* The entries of beats[i].neighbors.
Entries(i) ==
    { beats[i + 1].neighbors[k] : k \in 1..Len(beats[i + 1].neighbors) }

\* C10: in the graph as generate_graph returns it, the distance of two beats
\* does not depend on their order, and j is a neighbor of i at distance d
\* exactly when i is a neighbor of j at distance d.
C10_GraphIsSymmetric ==
    pc = "generate_infinite_track" =>
        \A i \in 0..(BeatCount - 1) :
            /\ \A j \in 0..(BeatCount - 1) :
                  get_seg_distances(beats[i + 1], beats[j + 1])
                      = get_seg_distances(beats[j + 1], beats[i + 1])
            /\ \A e \in Entries(i) :
                  [dest |-> i, distance |-> e.distance] \in Entries(e.dest)

\* A graph with an edge between two beats of different duration and
\* features, and a pair of beats left unconnected.
C10_Witness ==
    /\ pc = "generate_infinite_track"
    /\ \E i \in 0..(BeatCount - 1) :
          \E e \in Entries(i) :
             /\ beats[i + 1].duration < beats[e.dest + 1].duration
             /\ e.distance > 0
    /\ \E i, j \in 0..(BeatCount - 1) :
          i # j /\ \A e \in Entries(i) : e.dest # j

\* C11: in the graph generate_graph returns for beats whose neighbor lists
\* were empty, every list is in strictly ascending order of dest, so that no
\* destination is listed twice.
C11_NeighborsAscendByDest ==
    \A k \in 1..BeatCount :
        \A m \in 1..(Len(beats[k].neighbors) - 1) :
            beats[k].neighbors[m].dest < beats[k].neighbors[m + 1].dest

\* The graph is built and some beat has three neighbors or more.
C11_Witness ==
    /\ pc = "generate_infinite_track"
    /\ \E k \in 1..BeatCount : Len(beats[k].neighbors) >= 3

\* The thresholds the graph is compared under.
Thresholds == {a.threshold : a \in ArgSpace}

\* The beats of the current graph as generate_graph received them, every
\* neighbor list empty.
BareBeats == [k \in 1..BeatCount |-> [beats[k] EXCEPT !.neighbors = <<>>]]

\* The entries of a neighbor list, as a set.
EntrySet(neighbors) == {neighbors[m] : m \in 1..Len(neighbors)}

\* C12: for the same beats, the graph of a lower threshold is a part of the
\* graph of a higher one: each entry (dest and distance) a beat gets under t1
\* it also gets under any t2 >= t1.  The graph just built under args.threshold
\* is compared with the graph of the same beats under every other threshold.
C12_EdgesGrowWithThreshold ==
    pc = "generate_infinite_track" =>
        \A t \in Thresholds :
            LET other == Graph(BareBeats, t)
            IN  \A k \in 1..BeatCount :
                    /\ t <= args.threshold =>
                           EntrySet(other[k].neighbors) \subseteq Entries(k - 1)
                    /\ t >= args.threshold =>
                           Entries(k - 1) \subseteq EntrySet(other[k].neighbors)

\* The graph is built and a lower threshold gives some beat a list that is
\* neither empty nor the whole of its present list.
C12_Witness ==
    /\ pc = "generate_infinite_track"
    /\ \E t \in Thresholds :
           /\ t < args.threshold
           /\ \E k \in 1..BeatCount :
                  LET fewer == EntrySet(Graph(BareBeats, t)[k].neighbors)
                  IN  fewer # {} /\ fewer # Entries(k - 1)

\* C13: the distance stored on an edge from beat i to beat j is the
\* similarity distance of the two beats plus exactly 0 when i and j are
\* equal modulo 4 and exactly 100 when they are not.
C13_PenaltyIsZeroOrHundred ==
    pc = "generate_infinite_track" =>
        \A i \in 0..(BeatCount - 1) :
            \A e \in Entries(i) :
                e.distance =
                    get_seg_distances(beats[i + 1], beats[e.dest + 1])
                    + (IF i % 4 = e.dest % 4 THEN 0 ELSE Fix(100))

\* The graph is built and holds an edge within a phase class and an edge
\* across two phase classes.
C13_Witness ==
    /\ pc = "generate_infinite_track"
    /\ \E i \in 0..(BeatCount - 1) :
           \E e \in Entries(i) : i % 4 = e.dest % 4
    /\ \E i \in 0..(BeatCount - 1) :
           \E e \in Entries(i) : i % 4 # e.dest % 4

\* C14: generate_graph does not return normally from fewer than 2 beats:
\* with a beat list of length 0 or 1 the run never gets past the call of
\* generate_graph to the generation that follows it.
C14_DegenerateGraphRejected ==
    (BeatCount < 2 /\ ~InvalidConfiguration(args)) =>
        pc \notin {"generate_infinite_track", "while", "done"}

\* A step of generate_infinite_track: the call up to the loop head, one loop
\* iteration, or the loop exit with the concatenation and the trim.
GenerationStep == pc \in {"generate_infinite_track", "while"}

\* C15: no step of generate_infinite_track changes the beats (their number,
\* their fields, their neighbor lists), the sample buffer or the sample rate,
\* and no step of the loop changes the target.
C15_GenerationOnlyReads ==
    [][GenerationStep =>
          /\ beats' = beats
          /\ y' = y
          /\ sr' = sr
          /\ pc = "while" => target_samples' = target_samples]_vars

\* A generation that took a jump, emitted three beats or more and was saved.
C15_Witness ==
    /\ pc = "done"
    /\ choice_draws >= 1
    /\ iterations >= 3
    /\ \E k \in 1..BeatCount : beats[k].neighbors # <<>>

\* The index of the beat the iteration that starts in this state emits.
EmittedNext == Wrapped(current_index, BeatCount)

\* The iteration that starts in this state and draws r leaves current_index
\* at EmittedNext + 1 or at the dest of a neighbor of the emitted beat, and at
\* a dest other than EmittedNext + 1 only if the list is not empty and r / 
\* RandomResolution is below the branch probability.
StepFollowsRule ==
    \A r \in Draws : \A c \in Choices :
        (while_body(r, c) /\ pc' = "while") =>
            /\ \/ current_index' = EmittedNext + 1
               \/ \E e \in Entries(EmittedNext) : current_index' = e.dest
            /\ current_index' # EmittedNext + 1 =>
                   /\ beats[EmittedNext + 1].neighbors # <<>>
                   /\ r < args.prob

\* At a loop head where an iteration is due, with a branch probability above
\* 0, the iteration can leave current_index at the dest of any entry of the
\* emitted beat's list: the k-th entry is taken when random.choice picks it.
EveryNeighborPossible ==
    (pc = "while" /\ Continues(generated_samples, target_samples)
     /\ iterations < MaxIterations
     /\ BeatCount >= 1 /\ args.prob > 0) =>
        \A k \in 1..Len(beats[EmittedNext + 1].neighbors) :
            ENABLED (/\ \E r \in Draws : while_body(r, k)
                     /\ current_index' =
                            beats[EmittedNext + 1].neighbors[k].dest)

\* C16: after a beat c is emitted the next current_index is c + 1 or the
\* dest of an entry of beats[c].neighbors, a neighbor's dest only when the
\* list is not empty and the branch draw was below p; and every entry of a
\* non-empty list can be the one chosen, whatever its distance.
C16_TransitionRule == [][StepFollowsRule]_vars /\ []EveryNeighborPossible

\* A jump was just taken from a beat whose list holds entries of different
\* distances, to the farther of them.
C16_Witness ==
    /\ pc = "while"
    /\ iterations \in 1..MaxIterations
    /\ choice_draws >= 1
    /\ \E e, f \in Entries(emitted) :
           /\ e.distance < f.distance
           /\ f.dest = current_index
           /\ f.dest # emitted + 1

\* At a loop head of a run over N >= 1 beats, current_index is in 0..N and
\* every dest of every neighbor list is in 0..N-1; and no access
\* beats[current_index] was out of range.
IndicesInRange ==
    BeatCount >= 1 =>
        /\ pc = "while" => current_index \in 0..BeatCount
        /\ \A i \in 0..(BeatCount - 1) :
               \A e \in Entries(i) : e.dest \in 0..(BeatCount - 1)
        /\ raised # "IndexError"

\* An iteration that starts with current_index = N emits beat 0, and any
\* iteration emits the beat at an index in 0..N-1.
WrapEmitsFirstBeat ==
    (pc = "while" /\ pc' = "while" /\ iterations < MaxIterations) =>
        /\ emitted' \in 0..(BeatCount - 1)
        /\ current_index = BeatCount => emitted' = 0
        /\ current_index < BeatCount => emitted' = current_index

\* C17: for N >= 1 beats with the graph of generate_graph, at every loop
\* head 0 <= current_index <= N, every neighbor dest is in 0..N-1, every
\* access beats[current_index] is made with an index in 0..N-1, and when
\* current_index = N the beat emitted next is beat 0.
C17_IndexSafety == []IndicesInRange /\ [][WrapEmitsFirstBeat]_vars

\* The loop has just emitted beat 0 after a loop head with current_index = N,
\* in a run over two beats or more.
C17_Witness ==
    /\ pc = "while"
    /\ BeatCount >= 2
    /\ iterations \in 2..MaxIterations
    /\ emitted = 0
    /\ NoNeighbors

\* C18 as stated: when the loop has exited, the number of branch values
\* drawn equals the number of beats emitted.
C18_OneDrawPerIteration ==
    (pc = "done" /\ Counted /\ ~InvalidConfiguration(args)) =>
        branch_draws = iterations

\* The calls of the random source one iteration makes: random.random() is
\* called once when the emitted beat has neighbors and not at all when it
\* has none; random.choice is called once when the next index is taken from
\* a neighbor and not otherwise.
DrawsOnlyWithNeighbors ==
    (pc = "while" /\ pc' = "while" /\ iterations < MaxIterations) =>
        /\ branch_draws' - branch_draws =
               IF beats[EmittedNext + 1].neighbors # <<>> THEN 1 ELSE 0
        /\ choice_draws' - choice_draws \in 0..1
        /\ choice_draws' > choice_draws =>
               /\ branch_draws' > branch_draws
               /\ \E e \in Entries(EmittedNext) : current_index' = e.dest
        /\ choice_draws' = choice_draws => current_index' = EmittedNext + 1

\* The counts of a run: never more branch values than beats emitted, none
\* at all in a graph without edges, one per beat in a graph where every
\* beat has a neighbor, and never more choices than branch values.
DrawCounts ==
    Counted =>
        /\ choice_draws <= branch_draws
        /\ branch_draws <= iterations
        /\ NoNeighbors => branch_draws = 0
        /\ (BeatCount >= 1
            /\ \A k \in 1..BeatCount : beats[k].neighbors # <<>>) =>
               branch_draws = iterations

\* C18, amended: a loop iteration draws a branch value only when the emitted
\* beat has neighbors, so the number of branch values drawn is the number of
\* emitted beats with a non-empty neighbor list; the choice of the neighbor
\* is a separate draw made exactly on a jump.
C18_DrawsOnlyWithNeighbors == [][DrawsOnlyWithNeighbors]_vars /\ []DrawCounts

\* A saved run that emitted beats with and without neighbors and jumped once.
C18_Witness ==
    /\ pc = "done"
    /\ Counted
    /\ 0 < branch_draws /\ branch_draws < iterations
    /\ choice_draws >= 1

\* C19: the loop stops at the first loop head where the target is reached,
\* and the output is a prefix of what was emitted.  At every loop head
\* generated_samples is the total length of the segments appended so far;
\* when the loop has exited generated_samples >= target_samples while
\* without the last segment it was still below target_samples; and the saved
\* buffer is the first target_samples samples of the segments concatenated
\* in their order, no sample added.
C19_StopsAtTargetAndTrims ==
    LET emitted_audio == Concatenate(output_segments)
    IN  /\ pc \in {"while", "done"} =>
               generated_samples = Len(emitted_audio)
        /\ pc = "done" =>
               /\ generated_samples >= target_samples
               /\ generated_samples
                      - Len(output_segments[Len(output_segments)])
                  < target_samples
               /\ Len(full_audio) = target_samples
               /\ full_audio = SubSeq(emitted_audio, 1, target_samples)

\* A saved run of three segments or more whose last segment was cut by the
\* trim.
C19_Witness ==
    /\ pc = "done"
    /\ Len(output_segments) >= 3
    /\ generated_samples > target_samples
    /\ Len(full_audio) < Len(Concatenate(output_segments))

\* Every edge of the graph joins two beats of the same phase class.
EdgesKeepPhase ==
    args.threshold <= 100 =>
        \A i \in 0..(BeatCount - 1) :
            \A e \in Entries(i) : e.dest % 4 = i % 4

\* An iteration that does not advance to the next index leaves
\* current_index in the phase class of the beat it emitted.
JumpKeepsPhase ==
    (pc = "while" /\ pc' = "while" /\ args.threshold <= 100
     /\ current_index' # EmittedNext + 1) =>
        current_index' % 4 = EmittedNext % 4

\* C20: with a threshold of at most 100 (the default 60 included) every edge
\* joins beats i and dest with i mod 4 = dest mod 4, so a branch step keeps
\* current_index mod 4 at that of the beat just emitted: the phase changes
\* only by the advance to the next index or by the wraparound.
C20_BranchesKeepPhase == []EdgesKeepPhase /\ [][JumpKeepsPhase]_vars

\* Under threshold 100 a jump was just taken along an edge of the graph.
C20_Witness ==
    /\ pc = "while"
    /\ args.threshold = 100
    /\ iterations \in 1..MaxIterations
    /\ choice_draws >= 1
    /\ current_index # emitted + 1
    /\ \E e \in Entries(emitted) : e.dest = current_index

====
